---- MODULE Spec2Model ----
(***************************************************************************)
(* The earthquake subscription hook (src/hooks/useEarthquakes.ts, the      *)
(* getAtIndex/getBetweenRange revision, lines 561-970) as a state machine: *)
(* one subscription effect instance, the remote log it reads, the bulk     *)
(* load, the push subscription manager, the catch-up runs and the effect   *)
(* cleanup.  Every await of the source is a suspension point: the code     *)
(* between two awaits is one atomic action.                                *)
(***************************************************************************)
EXTENDS Integers, Sequences, FiniteSets, Bags

\* ---------------------------------------------------------------- bounds
MaxLog == 2          \* entries the oracle publishes
MaxIndex == 3        \* cap on currentIndex (onData increments it unboundedly)
MaxCatchUps == 1     \* refetchAndMerge runs in flight at the same time
MaxTimers == 2       \* reconnect timers pending at the same time
MaxStore == 2        \* records in a store given to the merge step on its own
MaxRenders == 1      \* re-renders that supply new consumer callbacks
MaxRuns == 2         \* requests the cron route receives

\* ---------------------------------------------------- program constants
MinMagnitude == 20   \* minMagnitude = 2.0, in tenths (uint16 magnitude / 10)
MIN_MAGNITUDE == 20  \* the cron route's MIN_MAGNITUDE = 2.0, in tenths

\* ------------------------------------------------------- remote entries
\* A decodable entry carries the schema fields the hook uses; magnitude is
\* the stored uint16 (tenths).  Undecodable stands for bytes on which
\* decodeEarthquake throws.
Undecodable == [earthquakeId |-> "?", timestamp |-> 0, magnitude |-> 0]

Catalog ==
  { [earthquakeId |-> "a", timestamp |-> 30, magnitude |-> 50],
    [earthquakeId |-> "a", timestamp |-> 10, magnitude |-> 30],
    [earthquakeId |-> "b", timestamp |-> 20, magnitude |-> 10],
    [earthquakeId |-> "c", timestamp |-> 30, magnitude |-> 40],
    Undecodable }

Decodes(e) == e # Undecodable

Accepts(q) == q.magnitude >= MinMagnitude

\* ------------------------------------------------------- pure functions
\* A hex string is characterised by what each decoding strategy makes of
\* it: schema is the record built from encoder.decode(data), abi the record
\* built from decodeAbiParameters(..., data); Undecodable in a field stands
\* for that strategy throwing.
EncodedData == [schema : Catalog, abi : Catalog]

Returned(q) == [threw |-> FALSE, value |-> q]
DecodeError == [threw |-> TRUE, value |-> Undecodable]

\* Mutant of decodeEarthquake: decodeAbiParameters is tried first.
decodeEarthquake_AbiFirst(data) ==
  IF data.abi # Undecodable THEN Returned(data.abi)
  ELSE IF data.schema # Undecodable THEN Returned(data.schema)
  ELSE DecodeError

\* try { encoder.decode } catch { decodeAbiParameters }: an exception of the
\* fallback leaves the function.
decodeEarthquake(data) ==
  IF data.schema # Undecodable THEN Returned(data.schema)
  ELSE IF data.abi # Undecodable THEN Returned(data.abi)
  ELSE DecodeError

\* Mutant of Ids: the set of existing ids is left empty.
Ids_Empty(list) == {}

Ids(list) == { list[k].earthquakeId : k \in 1..Len(list) }

\* Mutant of InsertByTimestamp: the list is left in insertion order.
InsertByTimestamp_InsertionOrder(sorted, q) == Append(sorted, q)

\* Array.prototype.sort((a, b) => b.timestamp - a.timestamp): stable,
\* newest first.
InsertByTimestamp(sorted, q) ==
  LET before == Cardinality({ k \in 1..Len(sorted) : sorted[k].timestamp >= q.timestamp })
  IN  SubSeq(sorted, 1, before) \o <<q>> \o SubSeq(sorted, before + 1, Len(sorted))

RECURSIVE SortByTimestampDesc(_)
SortByTimestampDesc(list) ==
  IF list = <<>> THEN <<>>
  ELSE InsertByTimestamp(SortByTimestampDesc(SubSeq(list, 1, Len(list) - 1)), list[Len(list)])

RECURSIVE SelectSeqBy(_, _)
\* list.filter(keep), keep given as the set of kept positions
SelectSeqBy(list, kept) ==
  IF list = <<>> THEN <<>>
  ELSE LET front == SelectSeqBy(SubSeq(list, 1, Len(list) - 1), kept)
       IN  IF Len(list) \in kept THEN Append(front, list[Len(list)]) ELSE front

\* Mutant of DecodeAndFilter: the magnitude test is left out.
DecodeAndFilter_NoFilter(batch) ==
  SelectSeqBy(batch, { k \in 1..Len(batch) : Decodes(batch[k]) })

\* decode + magnitude filter of a fetched batch; entries that throw are skipped
DecodeAndFilter(batch) ==
  SelectSeqBy(batch, { k \in 1..Len(batch) : Decodes(batch[k]) /\ Accepts(batch[k]) })

\* Mutant of NewQuakes: a fetched record is kept unless the store holds a
\* record equal to it in every field.
NewQuakes_ByValue(store, quakes) ==
  SelectSeqBy(quakes, { k \in 1..Len(quakes) : \A j \in 1..Len(store) : store[j] # quakes[k] })

\* Mutant of NewQuakes: no comparison with the ids in the store.
NewQuakes_NoDedup(store, quakes) == quakes

\* newQuakes = missedQuakes.filter(q => !existingIds.has(q.earthquakeId))
NewQuakes(store, quakes) ==
  SelectSeqBy(quakes, { k \in 1..Len(quakes) : quakes[k].earthquakeId \notin Ids(store) })

\* Mutant of MergeInto: the merged list is built from the new records only.
MergeInto_DropsStore(store, quakes) == SortByTimestampDesc(NewQuakes(store, quakes))

\* [...currentEarthquakes, ...newQuakes].sort(...)
MergeInto(store, quakes) == SortByTimestampDesc(store \o NewQuakes(store, quakes))

\* The store after the merge step: assigned only when newQuakes is not empty.
MergedStore(store, quakes) ==
  IF NewQuakes(store, quakes) # <<>> THEN MergeInto(store, quakes) ELSE store

\* entries of the remote log at the 0-based indices first..last
LogRange(log, first, last) == SubSeq(log, first + 1, last + 1)

\* ----------------------------------------------------------------- state
VARIABLES
  remoteLog,           \* the publisher's entries on chain, index 0 first
  currentEarthquakes,  \* the store (effect-local list)
  currentIndex,        \* the cursor
  isSubscribed,
  isReconnecting,
  isInitialized,
  subscription,        \* <<>> (undefined) or <<handle>>, handle = [index, live]
  pendingSub,          \* <<>> or <<[index]>>: a subscribe call awaiting its result
  reconnectTimeout,    \* "armed": holds the id of a pending timer; "none": null, or the id of a timer that fired or was cleared
  staleTimers,         \* pending timers whose id reconnectTimeout no longer holds
  lastFetchAge,        \* Date.now() - lastFetchTime: "recent" (<= 30000 ms) or "over30s"
  initPc,              \* position of the bulk-load initialisation chain
  bulkTotal,           \* fetchInitialQuakes' total (0 when its count failed) until the cursor is set
  catchUp,             \* bag of the refetchAndMerge runs in flight, each [pc, start, total]
  tornDown,            \* the effect cleanup has run
  subscribeCalled,     \* sdk.streams.subscribe has been called at least once
  retryOwed,           \* an onError or a rejected subscribe has occurred since the last subscribe call
  lastUpdate,          \* <<>> (never invoked) or <<list, callbacks>>: the list passed to the last onEarthquakesUpdate and the callbacks that received it
  notified,            \* records passed to onNewEarthquake, in order
  callbackRef,         \* the consumer callbacks held by onNewEarthquakeRef / onEarthquakesUpdateRef: 0 at mount, n after the n-th replacement
  encodedData,         \* hex strings handed to decodeEarthquake, in call order
  decodeResults,       \* what the calls made so far returned or threw, in call order
  pageEarthquakes,     \* page.tsx: the earthquakes state of Home
  pagePc,              \* the page's own fetchInitialQuakes call: "count", "fetch", "done"
  pageTotal,           \* the total that call read
  lastProcessedId,     \* route.ts: module variable, NoId for null
  lastProcessedTime,   \* route.ts: module variable
  usgsFeed,            \* data.features as USGS serves them now
  syncRuns,            \* the runs of GET, in order of arrival: [pc, status, force, newQuakes, i]
  transactions         \* the setAndEmitEvents calls made, in order: [run, quake, state]

storeVars == <<currentEarthquakes, currentIndex>>
uiVars    == <<lastUpdate, notified, callbackRef, pageEarthquakes>>
pageVars  == <<pagePc, pageTotal>>
oracleVars == <<lastProcessedId, lastProcessedTime, usgsFeed, syncRuns, transactions>>
decodeVars == <<encodedData, decodeResults>>
subVars   == <<subscription, pendingSub, isSubscribed, isReconnecting, subscribeCalled, retryOwed>>
timerVars == <<reconnectTimeout, staleTimers>>
initVars  == <<initPc, bulkTotal, isInitialized>>
hookVars == <<remoteLog, storeVars, uiVars, subVars, timerVars, initVars, lastFetchAge, catchUp,
              tornDown, decodeVars>>
vars == <<remoteLog, currentEarthquakes, currentIndex, isSubscribed, isReconnecting,
          isInitialized, subscription, pendingSub, reconnectTimeout, staleTimers,
          lastFetchAge, initPc, bulkTotal, catchUp, tornDown, subscribeCalled, retryOwed,
          lastUpdate, notified, callbackRef, encodedData, decodeResults,
          pageEarthquakes, pagePc, pageTotal,
          lastProcessedId, lastProcessedTime, usgsFeed, syncRuns, transactions>>

\* route.ts at module load: nothing processed, no request yet.
NoId == "null"
\* lastProcessedTime at module load (1 hour before) and after a force
\* refresh (24 hours before the request): earlier than every feature served.
ResetTime == 0

OracleAtLoad ==
  /\ lastProcessedId = NoId
  /\ lastProcessedTime = ResetTime
  /\ usgsFeed = <<>>
  /\ syncRuns = <<>>
  /\ transactions = <<>>

\* page.tsx at mount: the state is [] and the load effect has called
\* fetchInitialQuakes, which awaits its count.
PageAtMount ==
  /\ pageEarthquakes = <<>>
  /\ pagePc = "count"
  /\ pageTotal = 0

CountingRun == [pc |-> "count", start |-> 0, total |-> 0]
\* a run awaiting getBetweenRange(start, total - 1)
RangeRuns == [pc : {"range"}, start : 0..MaxIndex, total : 1..MaxLog]

\* The effect body has run: the listener is registered and fetchInitialQuakes
\* is awaiting its totalPublisherDataForSchema call.
Init ==
  /\ remoteLog = <<>>
  /\ currentEarthquakes = <<>>
  /\ currentIndex = 0
  /\ isSubscribed = FALSE
  /\ isReconnecting = FALSE
  /\ isInitialized = FALSE
  /\ subscription = <<>>
  /\ pendingSub = <<>>
  /\ reconnectTimeout = "none"
  /\ staleTimers = 0
  /\ lastFetchAge = "recent"
  /\ initPc = "count"
  /\ bulkTotal = 0
  /\ catchUp = EmptyBag
  /\ tornDown = FALSE
  /\ subscribeCalled = FALSE
  /\ retryOwed = FALSE
  /\ lastUpdate = <<>>
  /\ notified = <<>>
  /\ callbackRef = 0
  /\ PageAtMount
  /\ OracleAtLoad
  /\ encodedData = <<>>
  /\ decodeResults = <<>>

\* ------------------------------------------------------------ the oracle
\* The publisher appends one entry (route.ts publishes one at a time).
Publish(e) ==
  /\ Len(remoteLog) < MaxLog
  /\ remoteLog' = Append(remoteLog, e)
  /\ UNCHANGED <<decodeVars, oracleVars, pageVars, storeVars, uiVars, subVars, timerVars, initVars, lastFetchAge, catchUp, tornDown>>

\* More than 30 s pass without lastFetchTime being reset.
Tick ==
  /\ lastFetchAge = "recent"
  /\ lastFetchAge' = "over30s"
  /\ UNCHANGED <<decodeVars, oracleVars, pageVars, remoteLog, storeVars, uiVars, subVars, timerVars, initVars, catchUp, tornDown>>

\* --------------------------------------------------- setupSubscription
\* A handle after unsubscribe(): no callback of it is invoked any more, so
\* the index it was encoded with no longer matters.
Unsubscribed == [index |-> 0, live |-> FALSE]

\* Mutant of SetupSubscription: the previous handle is not unsubscribed.
SetupSubscription_KeepsHandle(idx) ==
  IF isReconnecting
  THEN UNCHANGED subVars
  ELSE /\ isReconnecting' = TRUE
       /\ UNCHANGED <<subscription, isSubscribed>>
       /\ pendingSub' = <<[index |-> idx]>>
       /\ subscribeCalled' = TRUE
       /\ retryOwed' = FALSE

\* The synchronous part of setupSubscription, up to the await of
\* sdk.streams.subscribe; idx is currentIndex as encoded into the ethCall.
SetupSubscription(idx) ==
  IF isReconnecting
  THEN UNCHANGED subVars
  ELSE /\ isReconnecting' = TRUE
       /\ subscription' = IF subscription = <<>> THEN <<>>
                          ELSE <<Unsubscribed>>
       /\ isSubscribed' = IF subscription = <<>> THEN isSubscribed ELSE FALSE
       /\ pendingSub' = <<[index |-> idx]>>
       /\ subscribeCalled' = TRUE
       /\ retryOwed' = FALSE

\* The synchronous part of refetchAndMerge, up to the await of
\* totalPublisherDataForSchema.
StartRefetch ==
  /\ BagCardinality(catchUp) < MaxCatchUps
  /\ catchUp' = catchUp (+) SetToBag({CountingRun})

\* reconnectTimeout = setTimeout(...): the id previously held is overwritten.
PendingTimers == staleTimers + (IF reconnectTimeout = "armed" THEN 1 ELSE 0)

ArmTimer ==
  /\ PendingTimers < MaxTimers
  /\ staleTimers' = IF reconnectTimeout = "armed" THEN staleTimers + 1 ELSE staleTimers
  /\ reconnectTimeout' = "armed"

\* ------------------------------------------------------------- bulk load
\* Mutant of BulkCount: setupSubscription() is started without waiting for
\* the bulk load.
BulkCount_SubscribesEarly(outcome) ==
  /\ initPc = "count"
  /\ IF outcome = "throw" \/ Len(remoteLog) = 0
     THEN /\ currentEarthquakes' = <<>>
          /\ isInitialized' = TRUE
          /\ bulkTotal' = 0
          /\ initPc' = "cursor"
     ELSE /\ bulkTotal' = Len(remoteLog)
          /\ initPc' = "fetch"
          /\ UNCHANGED <<currentEarthquakes, isInitialized>>
  /\ SetupSubscription(currentIndex)
  /\ UNCHANGED <<decodeVars, oracleVars, pageVars, remoteLog, currentIndex, uiVars, timerVars, lastFetchAge, catchUp, tornDown>>

\* fetchInitialQuakes: totalPublisherDataForSchema returns.  A throw or a
\* zero total makes fetchInitialQuakes return [], and the then-callback runs
\* up to its own await of totalPublisherDataForSchema.
BulkCount(outcome) ==
  /\ initPc = "count"
  /\ IF outcome = "throw" \/ Len(remoteLog) = 0
     THEN /\ currentEarthquakes' = <<>>
          /\ isInitialized' = TRUE
          /\ bulkTotal' = 0
          /\ initPc' = "cursor"
     ELSE /\ bulkTotal' = Len(remoteLog)
          /\ initPc' = "fetch"
          /\ UNCHANGED <<currentEarthquakes, isInitialized>>
  /\ UNCHANGED <<decodeVars, oracleVars, pageVars, remoteLog, currentIndex, uiVars, subVars, timerVars, lastFetchAge, catchUp, tornDown>>

\* Mutant of BulkFetch: an entry that fails to decode aborts the bulk load.
BulkFetch_AbortsOnFailure(failed) ==
  /\ initPc = "fetch"
  /\ LET fetched == SelectSeqBy(LogRange(remoteLog, 0, bulkTotal - 1),
                                { k \in 1..bulkTotal : (k - 1) \notin failed })
         quakes  == SortByTimestampDesc(DecodeAndFilter(fetched))
     IN  currentEarthquakes' = IF \E k \in 1..Len(fetched) : ~Decodes(fetched[k])
                               THEN <<>> ELSE quakes
  /\ isInitialized' = TRUE
  /\ initPc' = "cursor"
  /\ UNCHANGED <<decodeVars, oracleVars, pageVars, remoteLog, currentIndex, bulkTotal, uiVars, subVars, timerVars, lastFetchAge, catchUp, tornDown>>

\* fetchInitialQuakes: the getAtIndex loop over 0..total-1 (an index in
\* failed throws or returns no array and is skipped), the sort, and the
\* then-callback up to its await.
BulkFetch(failed) ==
  /\ initPc = "fetch"
  /\ LET fetched == SelectSeqBy(LogRange(remoteLog, 0, bulkTotal - 1),
                                { k \in 1..bulkTotal : (k - 1) \notin failed })
         quakes  == SortByTimestampDesc(DecodeAndFilter(fetched))
     IN  currentEarthquakes' = quakes
  /\ isInitialized' = TRUE
  /\ initPc' = "cursor"
  /\ UNCHANGED <<decodeVars, oracleVars, pageVars, remoteLog, currentIndex, bulkTotal, uiVars, subVars, timerVars, lastFetchAge, catchUp, tornDown>>

\* The then-callback resumes: currentIndex = total || 0 (unchanged when the
\* count threw), then setupSubscription().
InitCursor(outcome) ==
  /\ initPc = "cursor"
  /\ currentIndex' = IF outcome = "ok" THEN Len(remoteLog) ELSE currentIndex
  /\ SetupSubscription(currentIndex')
  /\ initPc' = "done"
  /\ bulkTotal' = 0
  /\ UNCHANGED <<decodeVars, oracleVars, pageVars, remoteLog, currentEarthquakes, isInitialized, uiVars, timerVars,
                 lastFetchAge, catchUp, tornDown>>

\* ------------------------------------------------- subscription manager
\* Mutant of SubscribeResolve: no catch-up after the subscribe.
SubscribeResolve_NoCatchUp ==
  /\ pendingSub # <<>>
  /\ subscription' = <<[index |-> pendingSub[1].index, live |-> TRUE]>>
  /\ isSubscribed' = TRUE
  /\ isReconnecting' = FALSE
  /\ pendingSub' = <<>>
  /\ UNCHANGED <<decodeVars, oracleVars, pageVars, remoteLog, storeVars, uiVars, timerVars, initVars, lastFetchAge, catchUp,
                 tornDown, subscribeCalled, retryOwed>>

\* sdk.streams.subscribe resolves: the handle is stored and, after the bulk
\* load, a catch-up is started.
SubscribeResolve ==
  /\ pendingSub # <<>>
  /\ subscription' = <<[index |-> pendingSub[1].index, live |-> TRUE]>>
  /\ isSubscribed' = TRUE
  /\ isReconnecting' = FALSE
  /\ pendingSub' = <<>>
  /\ IF isInitialized THEN StartRefetch ELSE UNCHANGED catchUp
  /\ UNCHANGED <<decodeVars, oracleVars, pageVars, remoteLog, storeVars, uiVars, timerVars, initVars, lastFetchAge, tornDown, subscribeCalled, retryOwed>>

\* sdk.streams.subscribe rejects: retry timer of 5000 ms.
SubscribeReject ==
  /\ pendingSub # <<>>
  /\ pendingSub' = <<>>
  /\ isReconnecting' = FALSE
  /\ ArmTimer
  /\ UNCHANGED <<decodeVars, oracleVars, pageVars, remoteLog, storeVars, uiVars, initVars, lastFetchAge, catchUp, tornDown,
                 subscription, isSubscribed, subscribeCalled>>
  /\ retryOwed' = TRUE

\* The subscriptions whose callbacks the SDK may still invoke: the handle
\* held if it has not been unsubscribed, and the one being established.
\* Each is identified by the index its ethCall was encoded with.
Sources ==
  (IF subscription # <<>> /\ subscription[1].live THEN {subscription[1].index} ELSE {})
  \cup (IF pendingSub # <<>> THEN {pendingSub[1].index} ELSE {})

\* Mutant of OnError: the store is cleared when the channel fails.
OnError_ClearsStore ==
  /\ Sources # {}
  /\ isSubscribed' = FALSE
  /\ ArmTimer
  /\ currentEarthquakes' = <<>>
  /\ UNCHANGED <<decodeVars, oracleVars, pageVars, remoteLog, currentIndex, uiVars, initVars, lastFetchAge, catchUp, tornDown,
                 subscription, pendingSub, isReconnecting, subscribeCalled>>
  /\ retryOwed' = TRUE

\* onError: reconnect timer of 3000 ms.
OnError ==
  /\ Sources # {}
  /\ isSubscribed' = FALSE
  /\ ArmTimer
  /\ UNCHANGED <<decodeVars, oracleVars, pageVars, remoteLog, storeVars, uiVars, initVars, lastFetchAge, catchUp, tornDown,
                 subscription, pendingSub, isReconnecting, subscribeCalled>>
  /\ retryOwed' = TRUE

\* A reconnect timer fires ("latest": the one reconnectTimeout holds) and
\* calls setupSubscription().
TimerFire(which) ==
  /\ IF which = "latest"
     THEN /\ reconnectTimeout = "armed"
          /\ reconnectTimeout' = "none"
          /\ UNCHANGED staleTimers
     ELSE /\ staleTimers > 0
          /\ staleTimers' = staleTimers - 1
          /\ UNCHANGED reconnectTimeout
  /\ SetupSubscription(currentIndex)
  /\ UNCHANGED <<decodeVars, oracleVars, pageVars, remoteLog, storeVars, uiVars, initVars, lastFetchAge, catchUp, tornDown>>

\* --------------------------------------------------------------- onData
\* Mutant of NotificationOutcome: the isSubscribed test placed before the
\* magnitude filter.
NotificationOutcome_SubscribedFirst(e) ==
  IF ~Decodes(e) THEN "undecodable"
  ELSE IF ~isSubscribed THEN "ignored"
  ELSE IF e.magnitude < MinMagnitude THEN "filtered"
  ELSE IF e.earthquakeId \in Ids(currentEarthquakes) THEN "duplicate"
  ELSE "added"

\* What onData does with the record of the bundled payload (lines 823-866).
NotificationOutcome(e) ==
  IF ~Decodes(e) THEN "undecodable"
  ELSE IF e.magnitude < MinMagnitude THEN "filtered"
  ELSE IF ~isSubscribed THEN "ignored"
  ELSE IF e.earthquakeId \in Ids(currentEarthquakes) THEN "duplicate"
  ELSE "added"

\* A notification of the subscription encoded with index idx.  The payload
\* is the simulated getAtIndex(idx): "missing" (no simulationResults),
\* "empty" (empty bytes[]) or "entry" (the log entry at idx).
OnData(idx, payload) ==
  /\ idx \in Sources
  /\ payload = "entry" => idx < Len(remoteLog)
  /\ lastFetchAge' = "recent"
  /\ LET outcome == IF payload = "entry" THEN NotificationOutcome(remoteLog[idx + 1]) ELSE "nodata"
         quake   == remoteLog[idx + 1]
     IN  /\ outcome \in {"filtered", "duplicate", "added"} => currentIndex < MaxIndex
         /\ currentIndex' = IF outcome \in {"filtered", "duplicate", "added"}
                            THEN currentIndex + 1 ELSE currentIndex
         /\ IF outcome = "added"
            THEN /\ currentEarthquakes' = SortByTimestampDesc(Append(currentEarthquakes, quake))
                 /\ lastUpdate' = <<currentEarthquakes', callbackRef>>
                 /\ pageEarthquakes' = currentEarthquakes'
                 /\ notified' = Append(notified, quake)
                 /\ UNCHANGED callbackRef
            ELSE UNCHANGED <<currentEarthquakes, uiVars>>
  /\ UNCHANGED <<decodeVars, oracleVars, pageVars, remoteLog, subVars, timerVars, initVars, catchUp, tornDown>>

\* Mutant of CatchUpCount: the total is not compared with currentIndex.
CatchUpCount_AlwaysFetches(outcome) ==
  /\ BagIn(CountingRun, catchUp)
  /\ IF outcome = "ok"
     THEN /\ catchUp' = (catchUp (-) SetToBag({CountingRun}))
                         (+) SetToBag({[pc |-> "range", start |-> currentIndex, total |-> Len(remoteLog)]})
          /\ UNCHANGED lastFetchAge
     ELSE /\ catchUp' = catchUp (-) SetToBag({CountingRun})
          /\ lastFetchAge' = "recent"
  /\ UNCHANGED <<decodeVars, oracleVars, pageVars, remoteLog, storeVars, uiVars, subVars, timerVars, initVars, tornDown>>

\* -------------------------------------------------------------- catch-up
\* refetchAndMerge: totalPublisherDataForSchema returns.  When there is
\* something to fetch, getBetweenRange(currentIndex, totalOnChain - 1) is issued.
CatchUpCount(outcome) ==
  /\ BagIn(CountingRun, catchUp)
  /\ IF outcome = "ok" /\ Len(remoteLog) > currentIndex
     THEN /\ catchUp' = (catchUp (-) SetToBag({CountingRun}))
                         (+) SetToBag({[pc |-> "range", start |-> currentIndex, total |-> Len(remoteLog)]})
          /\ UNCHANGED lastFetchAge
     ELSE /\ catchUp' = catchUp (-) SetToBag({CountingRun})
          /\ lastFetchAge' = "recent"
  /\ UNCHANGED <<decodeVars, oracleVars, pageVars, remoteLog, storeVars, uiVars, subVars, timerVars, initVars, tornDown>>

\* Mutant of CatchUpRangeFailed: the cursor is advanced although the fetch failed.
CatchUpRangeFailed_AdvancesCursor(run, outcome) ==
  /\ BagIn(run, catchUp)
  /\ outcome \in {"throw", "error", "empty"}
  /\ currentIndex' = run.total
  /\ lastFetchAge' = "recent"
  /\ catchUp' = catchUp (-) SetToBag({run})
  /\ UNCHANGED <<decodeVars, oracleVars, pageVars, remoteLog, currentEarthquakes, uiVars, subVars, timerVars, initVars, tornDown>>

\* refetchAndMerge: getBetweenRange throws ("throw"), returns an Error
\* ("error") or returns no data ("empty").
CatchUpRangeFailed(run, outcome) ==
  /\ BagIn(run, catchUp)
  /\ outcome \in {"throw", "error", "empty"}
  /\ lastFetchAge' = "recent"
  /\ catchUp' = catchUp (-) SetToBag({run})
  /\ UNCHANGED <<decodeVars, oracleVars, pageVars, remoteLog, storeVars, uiVars, subVars, timerVars, initVars, tornDown>>

\* Mutant of MissedData: the end index taken as exclusive.
MissedData_EndExclusive(start, total) == LogRange(remoteLog, start, total - 2)

\* The entries getBetweenRange(start, total - 1) returns.
MissedData(start, total) == LogRange(remoteLog, start, total - 1)

\* refetchAndMerge: getBetweenRange returns the entries; decode, filter,
\* merge, then currentIndex = totalOnChain.
CatchUpRangeReturned(run) ==
  /\ BagIn(run, catchUp)
  /\ LET missedQuakes == DecodeAndFilter(MissedData(run.start, run.total))
         newQuakes    == NewQuakes(currentEarthquakes, missedQuakes)
     IN  IF newQuakes # <<>>
         THEN /\ currentEarthquakes' = MergeInto(currentEarthquakes, missedQuakes)
              /\ lastUpdate' = <<currentEarthquakes', callbackRef>>
              /\ pageEarthquakes' = currentEarthquakes'
              /\ UNCHANGED <<notified, callbackRef>>
         ELSE UNCHANGED <<currentEarthquakes, uiVars>>
  /\ currentIndex' = run.total
  /\ lastFetchAge' = "recent"
  /\ catchUp' = catchUp (-) SetToBag({run})
  /\ UNCHANGED <<decodeVars, oracleVars, pageVars, remoteLog, subVars, timerVars, initVars, tornDown>>

\* Mutant of VisibilityChange: the time since lastFetchTime is not compared.
VisibilityChange_IgnoresAge ==
  /\ ~tornDown
  /\ isSubscribed
  /\ StartRefetch
  /\ UNCHANGED <<decodeVars, oracleVars, pageVars, remoteLog, storeVars, uiVars, subVars, timerVars, initVars, lastFetchAge, tornDown>>

\* handleVisibilityChange: the tab becomes visible while subscribed and more
\* than 30 s after lastFetchTime.  (Any other visibility change does nothing.)
VisibilityChange ==
  /\ ~tornDown
  /\ isSubscribed
  /\ lastFetchAge = "over30s"
  /\ StartRefetch
  /\ UNCHANGED <<decodeVars, oracleVars, pageVars, remoteLog, storeVars, uiVars, subVars, timerVars, initVars, lastFetchAge, tornDown>>

\* ------------------------------------------------------- callback refs
\* Mutant of UpdateCallbackRefs: the callbacks are dependencies of the
\* subscription effect, which starts again with an empty store.
UpdateCallbackRefs_RestartsEffect ==
  /\ ~tornDown
  /\ callbackRef < MaxRenders
  /\ callbackRef' = callbackRef + 1
  /\ currentEarthquakes' = <<>>
  /\ currentIndex' = 0
  /\ UNCHANGED <<decodeVars, oracleVars, pageVars, remoteLog, lastUpdate, notified, pageEarthquakes, subVars, timerVars, initVars,
                 lastFetchAge, catchUp, tornDown>>

\* A re-render supplied new onNewEarthquake / onEarthquakesUpdate functions:
\* the effect of lines 567-570 stores them in the refs.  The subscription
\* effect does not depend on them (line 967) and does not run.
UpdateCallbackRefs ==
  /\ ~tornDown
  /\ callbackRef < MaxRenders
  /\ callbackRef' = callbackRef + 1
  /\ UNCHANGED <<decodeVars, oracleVars, pageVars, remoteLog, storeVars, lastUpdate, notified, pageEarthquakes, subVars, timerVars, initVars,
                 lastFetchAge, catchUp, tornDown>>

\* -------------------------------------------------------- effect cleanup
Teardown ==
  /\ ~tornDown
  /\ tornDown' = TRUE
  /\ reconnectTimeout' = "none"
  /\ IF subscription # <<>>
     THEN /\ isSubscribed' = FALSE
          /\ subscription' = <<Unsubscribed>>
     ELSE UNCHANGED <<isSubscribed, subscription>>
  /\ UNCHANGED <<decodeVars, oracleVars, pageVars, remoteLog, storeVars, uiVars, initVars, lastFetchAge, catchUp, staleTimers,
                 pendingSub, isReconnecting, subscribeCalled, retryOwed>>

\* ---------------------------------------------------------- specification
\* The steps of the hook when the SDK reports no failure and the component
\* stays mounted: bulk load, subscribe, notifications, catch-up runs.
DataPath ==
  \/ Tick
  \/ \E outcome \in {"ok", "throw"} : BulkCount(outcome)
  \/ \E failed \in SUBSET (0..(MaxLog - 1)) : BulkFetch(failed)
  \/ \E outcome \in {"ok", "throw"} : InitCursor(outcome)
  \/ SubscribeResolve
  \/ \E idx \in 0..MaxIndex, payload \in {"missing", "empty", "entry"} : OnData(idx, payload)
  \/ \E outcome \in {"ok", "throw"} : CatchUpCount(outcome)
  \/ \E run \in RangeRuns, outcome \in {"throw", "error", "empty"} : CatchUpRangeFailed(run, outcome)
  \/ \E run \in RangeRuns : CatchUpRangeReturned(run)
  \/ VisibilityChange

\* Subscription failures, reconnect timers and the effect cleanup.
Lifecycle ==
  \/ SubscribeReject
  \/ OnError
  \/ \E which \in {"latest", "stale"} : TimerFire(which)
  \/ Teardown

\* The hook in its whole environment.
Next ==
  \/ \E e \in Catalog : Publish(e)
  \/ DataPath
  \/ Lifecycle

Spec == Init /\ [][Next]_vars

\* The hook in a session without subscription failure and without unmount,
\* over every remote log: the specification of the claims about what the
\* data path does to the store and the cursor.
NextSession ==
  \/ \E e \in Catalog : Publish(e)
  \/ DataPath

SpecSession == Init /\ [][NextSession]_vars

\* The hook with every failure, reconnect and unmount, over remote logs that
\* repeat one accepted entry: the specification of the claims about the
\* order of the subscription's life cycle, which no entry's content affects.
RepeatedEntry == [earthquakeId |-> "a", timestamp |-> 30, magnitude |-> 50]

NextLifecycle ==
  \/ \E e \in {RepeatedEntry} : Publish(e)
  \/ DataPath
  \/ Lifecycle

SpecLifecycle == Init /\ [][NextLifecycle]_vars

\* A mounted session over remote logs that repeat one accepted entry, in
\* which the consumer re-renders with new callbacks.
NextCallbacks ==
  \/ \E e \in {RepeatedEntry} : Publish(e)
  \/ DataPath
  \/ UpdateCallbackRefs

SpecCallbacks == Init /\ [][NextCallbacks]_vars

\* decodeEarthquake on its own: the hex strings of a run of calls are drawn
\* first, then the calls are made in order.
InitDecode ==
  /\ encodedData \in UNION { [1..k -> EncodedData] : k \in 0..MaxLog }
  /\ decodeResults = <<>>
  /\ remoteLog = <<>>
  /\ currentEarthquakes = <<>>
  /\ currentIndex = 0
  /\ isSubscribed = FALSE
  /\ isReconnecting = FALSE
  /\ isInitialized = FALSE
  /\ subscription = <<>>
  /\ pendingSub = <<>>
  /\ reconnectTimeout = "none"
  /\ staleTimers = 0
  /\ lastFetchAge = "recent"
  /\ initPc = "count"
  /\ bulkTotal = 0
  /\ catchUp = EmptyBag
  /\ tornDown = FALSE
  /\ subscribeCalled = FALSE
  /\ retryOwed = FALSE
  /\ lastUpdate = <<>>
  /\ notified = <<>>
  /\ callbackRef = 0
  /\ PageAtMount
  /\ OracleAtLoad

DecodeCall ==
  /\ Len(decodeResults) < Len(encodedData)
  /\ decodeResults' = Append(decodeResults, decodeEarthquake(encodedData[Len(decodeResults) + 1]))
  /\ UNCHANGED <<encodedData, oracleVars, pageVars, remoteLog, storeVars, uiVars, subVars, timerVars, initVars,
                 lastFetchAge, catchUp, tornDown>>

NextDecode == DecodeCall

SpecDecode == InitDecode /\ [][NextDecode]_vars

\* SpecLifecycle when timers fire and subscribe calls return: every pending
\* reconnect timer eventually fires and every subscribe call in flight
\* eventually resolves or rejects.
SpecLifecycleFair ==
  /\ SpecLifecycle
  /\ WF_vars(TimerFire("latest"))
  /\ WF_vars(TimerFire("stale"))
  /\ WF_vars(SubscribeResolve \/ SubscribeReject)

\* SpecLifecycle when timers fire but a subscribe call may stay pending for
\* ever: nothing in the hook bounds the await of sdk.streams.subscribe.
SpecSubscribeMayHang ==
  /\ SpecLifecycle
  /\ WF_vars(TimerFire("latest"))
  /\ WF_vars(TimerFire("stale"))

\* The merge step of refetchAndMerge on its own, for any store and any
\* fetched batch: currentEarthquakes is the store, remoteLog the entries the
\* range fetch returned.
InitMerge ==
  /\ remoteLog \in UNION { [1..k -> Catalog] : k \in 0..MaxLog }
  /\ currentEarthquakes \in UNION { [1..k -> { e \in Catalog : Decodes(e) }] : k \in 0..MaxStore }
  /\ currentIndex = 0
  /\ isSubscribed = TRUE
  /\ isReconnecting = FALSE
  /\ isInitialized = TRUE
  /\ subscription = <<[index |-> 0, live |-> TRUE]>>
  /\ pendingSub = <<>>
  /\ reconnectTimeout = "none"
  /\ staleTimers = 0
  /\ lastFetchAge = "recent"
  /\ initPc = "done"
  /\ bulkTotal = 0
  /\ catchUp = EmptyBag
  /\ tornDown = FALSE
  /\ subscribeCalled = TRUE
  /\ retryOwed = FALSE
  /\ lastUpdate = <<>>
  /\ notified = <<>>
  /\ callbackRef = 0
  /\ PageAtMount
  /\ OracleAtLoad
  /\ encodedData = <<>>
  /\ decodeResults = <<>>

\* Lines 705-741: decode and filter the batch, merge it into the store.
MergeBatch ==
  /\ LET missedQuakes == DecodeAndFilter(remoteLog)
     IN  /\ currentEarthquakes' = MergedStore(currentEarthquakes, missedQuakes)
         /\ lastUpdate' = IF NewQuakes(currentEarthquakes, missedQuakes) # <<>>
                          THEN <<currentEarthquakes', callbackRef>> ELSE lastUpdate
         /\ pageEarthquakes' = IF NewQuakes(currentEarthquakes, missedQuakes) # <<>>
                               THEN currentEarthquakes' ELSE pageEarthquakes
  /\ UNCHANGED <<decodeVars, oracleVars, pageVars, remoteLog, currentIndex, notified, callbackRef, subVars, timerVars, initVars,
                 lastFetchAge, catchUp, tornDown>>

NextMerge == MergeBatch

SpecMerge == InitMerge /\ [][NextMerge]_vars

\* ------------------------------------- the snapshot-bundling revision
\* The revision of lines 225-534: the ethCall of the subscription is
\* getAllPublisherDataForSchema, so a notification carries the whole remote
\* set; the effect body starts the bulk load and setupSubscription() side by
\* side, and refetchAndMerge reloads everything through fetchInitialQuakes.
\* isInitialized and currentIndex do not exist in this revision.

\* The effect body has run: fetchInitialQuakes awaits its count, and
\* setupSubscription awaits sdk.streams.subscribe.
InitSnapshot ==
  /\ remoteLog = <<>>
  /\ currentEarthquakes = <<>>
  /\ currentIndex = 0
  /\ isSubscribed = FALSE
  /\ isReconnecting = TRUE
  /\ isInitialized = FALSE
  /\ subscription = <<>>
  /\ pendingSub = <<[index |-> 0]>>
  /\ reconnectTimeout = "none"
  /\ staleTimers = 0
  /\ lastFetchAge = "recent"
  /\ initPc = "count"
  /\ bulkTotal = 0
  /\ catchUp = EmptyBag
  /\ tornDown = FALSE
  /\ subscribeCalled = TRUE
  /\ retryOwed = FALSE
  /\ lastUpdate = <<>>
  /\ notified = <<>>
  /\ callbackRef = 0
  /\ PageAtMount
  /\ OracleAtLoad
  /\ encodedData = <<>>
  /\ decodeResults = <<>>

\* fetchInitialQuakes of the effect body: the count returns.  A throw or a
\* zero total returns [], which the then-callback assigns to the store.
SnapshotBulkCount(outcome) ==
  /\ initPc = "count"
  /\ IF outcome = "throw" \/ Len(remoteLog) = 0
     THEN /\ currentEarthquakes' = <<>>
          /\ bulkTotal' = 0
          /\ initPc' = "done"
     ELSE /\ bulkTotal' = Len(remoteLog)
          /\ initPc' = "fetch"
          /\ UNCHANGED currentEarthquakes
  /\ UNCHANGED <<decodeVars, oracleVars, pageVars, remoteLog, currentIndex, isInitialized, uiVars, subVars, timerVars,
                 lastFetchAge, catchUp, tornDown>>

\* The getAtIndex loop over 0..total-1 has ended (an index in failed is
\* skipped); the then-callback runs: currentEarthquakes = quakes.
SnapshotBulkFetch(failed) ==
  /\ initPc = "fetch"
  /\ LET fetched == SelectSeqBy(LogRange(remoteLog, 0, bulkTotal - 1),
                                { k \in 1..bulkTotal : (k - 1) \notin failed })
     IN  currentEarthquakes' = SortByTimestampDesc(DecodeAndFilter(fetched))
  /\ initPc' = "done"
  /\ UNCHANGED <<decodeVars, oracleVars, pageVars, remoteLog, currentIndex, bulkTotal, isInitialized, uiVars, subVars,
                 timerVars, lastFetchAge, catchUp, tornDown>>

\* sdk.streams.subscribe resolves.
SnapshotSubscribeResolve ==
  /\ pendingSub # <<>>
  /\ subscription' = <<[index |-> 0, live |-> TRUE]>>
  /\ isSubscribed' = TRUE
  /\ isReconnecting' = FALSE
  /\ pendingSub' = <<>>
  /\ UNCHANGED <<decodeVars, oracleVars, pageVars, remoteLog, storeVars, uiVars, timerVars, initVars, lastFetchAge,
                 catchUp, tornDown, subscribeCalled, retryOwed>>

\* A notification.  The payload is the simulated ethCall: "missing" (no
\* simulationResults), "empty" (empty bytes[]), "garbled" (the bytes[] does
\* not decode: the catch calls refetchAndMerge) or "snapshot" (the first n
\* entries of the log, n being the total when the event was simulated).
SnapshotOnData(n, payload) ==
  /\ pendingSub # <<>> \/ (subscription # <<>> /\ subscription[1].live)
  /\ payload = "snapshot" => n \in 1..Len(remoteLog)
  /\ payload # "snapshot" => n = 0
  /\ lastFetchAge' = "recent"
  /\ IF payload = "garbled" THEN StartRefetch ELSE UNCHANGED catchUp
  /\ LET earthquakes == SortByTimestampDesc(DecodeAndFilter(SubSeq(remoteLog, 1, n)))
         newQuakes   == NewQuakes(currentEarthquakes, earthquakes)
     IN  IF payload = "snapshot" /\ earthquakes # <<>> /\ isSubscribed /\ newQuakes # <<>>
         THEN /\ currentEarthquakes' = MergeInto(currentEarthquakes, earthquakes)
              /\ lastUpdate' = <<currentEarthquakes', callbackRef>>
              /\ pageEarthquakes' = currentEarthquakes'
              /\ notified' = Append(notified, newQuakes[1])
              /\ UNCHANGED callbackRef
         ELSE UNCHANGED <<currentEarthquakes, uiVars>>
  /\ UNCHANGED <<decodeVars, oracleVars, pageVars, remoteLog, currentIndex, subVars, timerVars, initVars, tornDown>>

\* refetchAndMerge: the count of its fetchInitialQuakes returns.  A throw or
\* a zero total gives freshQuakes = [], and nothing is merged.
SnapshotRefetchCount(outcome) ==
  /\ BagIn(CountingRun, catchUp)
  /\ IF outcome = "ok" /\ Len(remoteLog) > 0
     THEN /\ catchUp' = (catchUp (-) SetToBag({CountingRun}))
                         (+) SetToBag({[pc |-> "range", start |-> 0, total |-> Len(remoteLog)]})
          /\ UNCHANGED lastFetchAge
     ELSE /\ catchUp' = catchUp (-) SetToBag({CountingRun})
          /\ lastFetchAge' = "recent"
  /\ UNCHANGED <<decodeVars, oracleVars, pageVars, remoteLog, storeVars, uiVars, subVars, timerVars, initVars, tornDown>>

\* refetchAndMerge: its fetchInitialQuakes returns the records of
\* 0..total-1 (an index in failed is skipped); they are merged by id.
SnapshotRefetchReturned(run, failed) ==
  /\ BagIn(run, catchUp)
  /\ run.start = 0
  /\ LET fetched     == SelectSeqBy(LogRange(remoteLog, 0, run.total - 1),
                                    { k \in 1..run.total : (k - 1) \notin failed })
         freshQuakes == SortByTimestampDesc(DecodeAndFilter(fetched))
     IN  IF NewQuakes(currentEarthquakes, freshQuakes) # <<>>
         THEN /\ currentEarthquakes' = MergeInto(currentEarthquakes, freshQuakes)
              /\ lastUpdate' = <<currentEarthquakes', callbackRef>>
              /\ pageEarthquakes' = currentEarthquakes'
              /\ UNCHANGED <<notified, callbackRef>>
         ELSE UNCHANGED <<currentEarthquakes, uiVars>>
  /\ lastFetchAge' = "recent"
  /\ catchUp' = catchUp (-) SetToBag({run})
  /\ UNCHANGED <<decodeVars, oracleVars, pageVars, remoteLog, currentIndex, subVars, timerVars, initVars, tornDown>>

\* handleVisibilityChange of the snapshot revision (lines 501-509).
SnapshotVisibilityChange ==
  /\ isSubscribed
  /\ lastFetchAge = "over30s"
  /\ StartRefetch
  /\ UNCHANGED <<decodeVars, oracleVars, pageVars, remoteLog, storeVars, uiVars, subVars, timerVars, initVars,
                 lastFetchAge, tornDown>>

\* The snapshot revision in a session without subscription failure and
\* without unmount, over every remote log.
NextSnapshot ==
  \/ \E e \in Catalog : Publish(e)
  \/ Tick
  \/ \E outcome \in {"ok", "throw"} : SnapshotBulkCount(outcome)
  \/ \E failed \in SUBSET (0..(MaxLog - 1)) : SnapshotBulkFetch(failed)
  \/ SnapshotSubscribeResolve
  \/ \E n \in 0..MaxLog, payload \in {"missing", "empty", "garbled", "snapshot"} : SnapshotOnData(n, payload)
  \/ \E outcome \in {"ok", "throw"} : SnapshotRefetchCount(outcome)
  \/ \E run \in RangeRuns, failed \in SUBSET (0..(MaxLog - 1)) : SnapshotRefetchReturned(run, failed)
  \/ SnapshotVisibilityChange

SpecSnapshot == InitSnapshot /\ [][NextSnapshot]_vars

\* --------------------------------------------------------------- the page
\* page.tsx: Home keeps its own earthquakes state.  handleEarthquakesUpdate
\* (the hook's onEarthquakesUpdate) replaces it with the list it is given,
\* and the load effect replaces it with the result of its own
\* fetchInitialQuakes call, which runs beside the hook's bulk load.

\* The page's fetchInitialQuakes: the count returns.  A throw or a zero
\* total returns [], and the then-callback runs setEarthquakes([]).
PageFetchCount(outcome) ==
  /\ pagePc = "count"
  /\ IF outcome = "throw" \/ Len(remoteLog) = 0
     THEN /\ pageEarthquakes' = <<>>
          /\ pageTotal' = 0
          /\ pagePc' = "done"
     ELSE /\ pageTotal' = Len(remoteLog)
          /\ pagePc' = "fetch"
          /\ UNCHANGED pageEarthquakes
  /\ UNCHANGED <<decodeVars, oracleVars, remoteLog, storeVars, lastUpdate, notified, callbackRef,
                 subVars, timerVars, initVars, lastFetchAge, catchUp, tornDown>>

\* The page's getAtIndex loop has ended (an index in failed is skipped):
\* setEarthquakes(quakes).
PageFetchReturned(failed) ==
  /\ pagePc = "fetch"
  /\ LET fetched == SelectSeqBy(LogRange(remoteLog, 0, pageTotal - 1),
                                { k \in 1..pageTotal : (k - 1) \notin failed })
     IN  pageEarthquakes' = SortByTimestampDesc(DecodeAndFilter(fetched))
  /\ pagePc' = "done"
  /\ UNCHANGED <<decodeVars, oracleVars, remoteLog, storeVars, lastUpdate, notified, callbackRef,
                 pageTotal, subVars, timerVars, initVars, lastFetchAge, catchUp, tornDown>>

\* The page and the hook in a session without subscription failure and
\* without unmount, over every remote log.
NextPage ==
  \/ \E e \in Catalog : Publish(e)
  \/ DataPath
  \/ \E outcome \in {"ok", "throw"} : PageFetchCount(outcome)
  \/ \E failed \in SUBSET (0..(MaxLog - 1)) : PageFetchReturned(failed)

SpecPage == Init /\ [][NextPage]_vars

\* ------------------------------------------------------------ the oracle
\* The cron route (src/app/api/cron/sync-earthquakes/route.ts): each request
\* is a run of GET; lastProcessedId and lastProcessedTime are module
\* variables shared by all runs.  Every await of GET is a suspension point.

\* A USGS feature carries id, properties.time and properties.mag (in tenths).
UsgsCatalog == { q \in Catalog : q # Undecodable }

FeedIds(features) == { features[k].earthquakeId : k \in 1..Len(features) }

\* Mutant of InsertByTimeAsc: the features are left in feed order.
InsertByTimeAsc_FeedOrder(sorted, q) == Append(sorted, q)

\* Array.prototype.sort((a, b) => a.properties.time - b.properties.time):
\* stable, oldest first.
InsertByTimeAsc(sorted, q) ==
  LET before == Cardinality({ k \in 1..Len(sorted) : sorted[k].timestamp <= q.timestamp })
  IN  SubSeq(sorted, 1, before) \o <<q>> \o SubSeq(sorted, before + 1, Len(sorted))

RECURSIVE SortByTimeAsc(_)
SortByTimeAsc(list) ==
  IF list = <<>> THEN <<>>
  ELSE InsertByTimeAsc(SortByTimeAsc(SubSeq(list, 1, Len(list) - 1)), list[Len(list)])

\* The filter of lines 75-87 on one feature.
IsNewQuake(q, lastTime, lastId) ==
  /\ ~(q.magnitude < MIN_MAGNITUDE)
  /\ ~(q.timestamp < lastTime)
  /\ ~(lastId # NoId /\ q.earthquakeId = lastId)

\* newQuakes = data.features.filter(...).sort(...)
SelectNewQuakes(features, lastTime, lastId) ==
  SortByTimeAsc(SelectSeqBy(features, { k \in 1..Len(features) :
                                          IsNewQuake(features[k], lastTime, lastId) }))

\* USGS adds a feature to the feed (one feature per id).
UsgsReports(q) ==
  /\ q.earthquakeId \notin FeedIds(usgsFeed)
  /\ usgsFeed' = Append(usgsFeed, q)
  /\ UNCHANGED <<lastProcessedId, lastProcessedTime, syncRuns, transactions>>
  /\ UNCHANGED <<hookVars, pageVars>>

\* Mutant of SyncRequest: the force refresh is applied before the
\* authorization test.
SyncRequest_ForceBeforeAuth(authorized, force) ==
  /\ Len(syncRuns) < MaxRuns
  /\ syncRuns' = Append(syncRuns, [pc |-> IF authorized THEN "fetch" ELSE "done",
                                    status |-> IF authorized THEN 0 ELSE 401, force |-> force,
                                    newQuakes |-> <<>>, i |-> 0])
  /\ lastProcessedTime' = IF force THEN ResetTime ELSE lastProcessedTime
  /\ lastProcessedId' = IF force THEN NoId ELSE lastProcessedId
  /\ UNCHANGED <<usgsFeed, transactions>>
  /\ UNCHANGED <<hookVars, pageVars>>

\* A request arrives: the authorization test, the force refresh, and the
\* call of fetch(USGS_API).
SyncRequest(authorized, force) ==
  /\ Len(syncRuns) < MaxRuns
  /\ IF ~authorized
     THEN /\ syncRuns' = Append(syncRuns, [pc |-> "done", status |-> 401, force |-> force,
                                           newQuakes |-> <<>>, i |-> 0])
          /\ UNCHANGED <<lastProcessedId, lastProcessedTime>>
     ELSE /\ syncRuns' = Append(syncRuns, [pc |-> "fetch", status |-> 0, force |-> force,
                                           newQuakes |-> <<>>, i |-> 0])
          /\ lastProcessedTime' = IF force THEN ResetTime ELSE lastProcessedTime
          /\ lastProcessedId' = IF force THEN NoId ELSE lastProcessedId
  /\ UNCHANGED <<usgsFeed, transactions>>
  /\ UNCHANGED <<hookVars, pageVars>>

\* The transaction a run has in flight: the last one it submitted.
LastTransactionOf(r) ==
  CHOOSE k \in 1..Len(transactions) :
    /\ transactions[k].run = r
    /\ \A j \in (k + 1)..Len(transactions) : transactions[j].run # r

\* transactions with the state of run r's transaction in flight set
Settled(r, state) ==
  [transactions EXCEPT ![LastTransactionOf(r)].state = state]

\* The loop of lines 150-177 goes on after iteration i of run r: the next
\* setAndEmitEvents call, or after the last iteration the update of the
\* tracking variables and the response.
NextIteration(r, txs) ==
  LET run == syncRuns[r]
  IN  IF run.i < Len(run.newQuakes)
      THEN /\ syncRuns' = [syncRuns EXCEPT ![r].i = run.i + 1, ![r].pc = "submit"]
           /\ transactions' = Append(txs, [run |-> r, quake |-> run.newQuakes[run.i + 1],
                                           state |-> "sent"])
           /\ UNCHANGED <<lastProcessedId, lastProcessedTime>>
      ELSE /\ syncRuns' = [syncRuns EXCEPT ![r].pc = "done", ![r].status = 200]
           /\ transactions' = txs
           /\ lastProcessedId' = run.newQuakes[Len(run.newQuakes)].earthquakeId
           /\ lastProcessedTime' = run.newQuakes[Len(run.newQuakes)].timestamp

\* fetch and response.json() return ("ok") or fail ("error": a throw or a
\* status that is not ok, answered with 500).  The features are filtered
\* with the tracking variables as they are now, and the first
\* setAndEmitEvents call is made.
UsgsFetchReturned(r, outcome) ==
  /\ r <= Len(syncRuns)
  /\ syncRuns[r].pc = "fetch"
  /\ LET newQuakes == SelectNewQuakes(usgsFeed, lastProcessedTime, lastProcessedId)
     IN  IF outcome = "error"
         THEN /\ syncRuns' = [syncRuns EXCEPT ![r].pc = "done", ![r].status = 500]
              /\ UNCHANGED transactions
         ELSE IF newQuakes = <<>>
         THEN /\ syncRuns' = [syncRuns EXCEPT ![r].pc = "done", ![r].status = 200]
              /\ UNCHANGED transactions
         ELSE /\ syncRuns' = [syncRuns EXCEPT ![r].pc = "submit", ![r].newQuakes = newQuakes,
                                              ![r].i = 1]
              /\ transactions' = Append(transactions, [run |-> r, quake |-> newQuakes[1],
                                                       state |-> "sent"])
  /\ UNCHANGED <<usgsFeed, lastProcessedId, lastProcessedTime>>
  /\ UNCHANGED <<hookVars, pageVars>>

\* sdk.streams.setAndEmitEvents returns the hash ("hash": the receipt is
\* awaited) or throws ("throw": the catch goes on with the next one).
SubmitReturned(r, outcome) ==
  /\ r <= Len(syncRuns)
  /\ syncRuns[r].pc = "submit"
  /\ IF outcome = "hash"
     THEN /\ syncRuns' = [syncRuns EXCEPT ![r].pc = "receipt"]
          /\ UNCHANGED <<transactions, lastProcessedId, lastProcessedTime>>
     ELSE NextIteration(r, Settled(r, "failed"))
  /\ UNCHANGED usgsFeed
  /\ UNCHANGED <<hookVars, pageVars>>

\* waitForTransactionReceipt returns a receipt of status success or
\* reverted (both counted in txHashes) or throws after 30 s ("timeout").
ReceiptReturned(r, outcome) ==
  /\ r <= Len(syncRuns)
  /\ syncRuns[r].pc = "receipt"
  /\ NextIteration(r, Settled(r, IF outcome = "success" THEN "confirmed"
                                 ELSE IF outcome = "reverted" THEN "reverted"
                                 ELSE "failed"))
  /\ UNCHANGED usgsFeed
  /\ UNCHANGED <<hookVars, pageVars>>

NoRunInFlight == \A r \in 1..Len(syncRuns) : syncRuns[r].pc = "done"

OracleSteps ==
  \/ \E q \in UsgsCatalog : UsgsReports(q)
  \/ \E r \in 1..MaxRuns, outcome \in {"ok", "error"} : UsgsFetchReturned(r, outcome)
  \/ \E r \in 1..MaxRuns, outcome \in {"hash", "throw"} : SubmitReturned(r, outcome)
  \/ \E r \in 1..MaxRuns, outcome \in {"success", "reverted", "timeout"} : ReceiptReturned(r, outcome)

\* The oracle when the cron invocations may overlap.
NextOracle ==
  \/ \E authorized \in BOOLEAN, force \in BOOLEAN : SyncRequest(authorized, force)
  \/ OracleSteps

SpecOracle == Init /\ [][NextOracle]_vars

\* The oracle when a request arrives only after the previous run has
\* answered.
SequentialSyncRequest(authorized, force) ==
  /\ NoRunInFlight
  /\ SyncRequest(authorized, force)

NextOracleSequential ==
  \/ \E authorized \in BOOLEAN, force \in BOOLEAN : SequentialSyncRequest(authorized, force)
  \/ OracleSteps

SpecOracleSequential == Init /\ [][NextOracleSequential]_vars

\* ================================================================ claims

\* C1: no two records in currentEarthquakes share an earthquakeId, whatever
\* the remote log holds.
NoDuplicateIds ==
  \A i, j \in 1..Len(currentEarthquakes) :
     i # j => currentEarthquakes[i].earthquakeId # currentEarthquakes[j].earthquakeId

\* C2: after startup every remote entry below currentIndex that decodes and
\* passes the magnitude filter is in currentEarthquakes.
CursorCountsIngested ==
  subscribeCalled =>
    \A i \in 0..(currentIndex - 1) :
       (i < Len(remoteLog) /\ Decodes(remoteLog[i + 1]) /\ Accepts(remoteLog[i + 1]))
         => remoteLog[i + 1].earthquakeId \in Ids(currentEarthquakes)

\* C3: currentIndex never decreases.
CursorNeverDecreases == [][currentIndex' >= currentIndex]_vars

CursorIsBulkLoadCount ==
  [][(\E outcome \in {"ok", "throw"} : InitCursor(outcome)) => currentIndex' = bulkTotal]_vars

\* number of occurrences of q in list
Count(list, q) == Cardinality({ k \in 1..Len(list) : list[k] = q })

\* C6: gap repair.  A refetchAndMerge whose range fetch returns, with the
\* cursor still at the start c of the range it requested, leaves the store
\* equal to the previous store plus exactly the remote entries of indices
\* c..T-1 that decode, pass the filter and whose id was absent, and the
\* cursor at T.
GapRepair ==
  [][\A run \in RangeRuns :
       (CatchUpRangeReturned(run) /\ run.start = currentIndex) =>
         /\ run.total > currentIndex
         /\ currentIndex' = run.total
         /\ \A q \in Catalog :
              Count(currentEarthquakes', q) =
                Count(currentEarthquakes, q)
                + Cardinality({ i \in currentIndex..(run.total - 1) :
                                  /\ remoteLog[i + 1] = q
                                  /\ Decodes(q) /\ Accepts(q)
                                  /\ q.earthquakeId \notin Ids(currentEarthquakes) })]_vars

\* C6 witness: a catch-up has merged records (onEarthquakesUpdate was invoked
\* although no notification added a record) and the cursor is at the total.
GapRepaired ==
  /\ lastUpdate # <<>>
  /\ notified = <<>>
  /\ catchUp = EmptyBag
  /\ currentIndex = Len(remoteLog)

\* C7: a refetchAndMerge whose count call throws, or whose range fetch
\* throws, returns an Error or returns no data, changes neither the cursor
\* nor the store and invokes no UI callback.
FailedFetchChangesNothing ==
  [][(\/ (CatchUpCount("throw") /\ catchUp' # catchUp)
      \/ \E run \in RangeRuns, outcome \in {"throw", "error", "empty"} :
            CatchUpRangeFailed(run, outcome))
     => UNCHANGED <<currentIndex, currentEarthquakes, lastUpdate, notified>>]_vars

\* C7 witness: a range fetch is in flight for a non-empty gap, with records
\* in the store that a failure must not touch.
RangeFetchInFlight ==
  \E run \in RangeRuns :
     /\ BagIn(run, catchUp)
     /\ run.start = currentIndex
     /\ currentEarthquakes # <<>>

NoLiveSubscriptionAfterTeardown ==
  tornDown => ~(subscription # <<>> /\ subscription[1].live)

\* C10: after the effect cleanup no reconnect timer fires.
NoTimerFiresAfterTeardown ==
  [][tornDown => ~ \E which \in {"latest", "stale"} : TimerFire(which)]_vars

\* C11: after the effect cleanup no step (notification, subscribe
\* completion, catch-up completion) changes currentEarthquakes or
\* currentIndex or invokes onEarthquakesUpdate or onNewEarthquake.
NoEffectAfterTeardown ==
  [][tornDown => UNCHANGED <<currentEarthquakes, currentIndex, lastUpdate, notified>>]_vars

DeliveredRecordsPassFilter ==
  /\ \A k \in 1..Len(notified) : notified[k].magnitude >= MinMagnitude
  /\ lastUpdate # <<>> =>
       \A k \in 1..Len(lastUpdate[1]) : lastUpdate[1][k].magnitude >= MinMagnitude

\* C13 witness: a list has been handed to onEarthquakesUpdate after the
\* cursor passed a remote entry that is below the threshold.
DeliveredPastFilteredEntry ==
  /\ lastUpdate # <<>>
  /\ \E i \in 1..Len(remoteLog) :
        /\ i <= currentIndex
        /\ Decodes(remoteLog[i])
        /\ remoteLog[i].magnitude < MinMagnitude

\* timestamps of list never increase from one position to the next
IsSortedDesc(list) ==
  \A k \in 1..(Len(list) - 1) : list[k].timestamp >= list[k + 1].timestamp

\* C14: currentEarthquakes, and every list handed to onEarthquakesUpdate,
\* is sorted by timestamp in descending order.
SortedByTimestampDesc ==
  /\ IsSortedDesc(currentEarthquakes)
  /\ lastUpdate # <<>> => IsSortedDesc(lastUpdate[1])

\* C14 witness: a list handed to onEarthquakesUpdate holds records of
\* different timestamps, and the newest is one published after an older one.
NewerRecordMergedFirst ==
  /\ lastUpdate # <<>>
  /\ Len(lastUpdate[1]) >= 2
  /\ lastUpdate[1][1].timestamp > lastUpdate[1][2].timestamp
  /\ Len(remoteLog) >= 2
  /\ remoteLog[1] = lastUpdate[1][2]
  /\ remoteLog[2] = lastUpdate[1][1]

\* C15: the merge step is idempotent: for any store S and batch B, after
\* merging B into S a second merge of B finds no new record and leaves the
\* store identical.
MergeIdempotent ==
  LET batch  == DecodeAndFilter(remoteLog)
      merged == MergedStore(currentEarthquakes, batch)
  IN  /\ NewQuakes(merged, batch) = <<>>
      /\ MergedStore(merged, batch) = merged

\* C15 witness: a merge has added records of the batch to the store.
BatchMerged ==
  /\ lastUpdate # <<>>
  /\ currentEarthquakes = lastUpdate[1]
  /\ Len(currentEarthquakes) > MaxStore

\* C16: after the bulk load, every step invokes onNewEarthquake exactly
\* once per record it adds to currentEarthquakes, with that record, and
\* never otherwise.
NewRecordNotifiedOnce ==
  [][isInitialized =>
       /\ Len(notified') - Len(notified) = Len(currentEarthquakes') - Len(currentEarthquakes)
       /\ \A k \in (Len(notified) + 1)..Len(notified') :
            /\ Count(currentEarthquakes', notified'[k]) = Count(currentEarthquakes, notified'[k]) + 1
            /\ Count(notified', notified'[k]) = Count(notified, notified'[k]) + 1]_vars

\* C17: a notification whose bundled payload yields no record (no
\* simulationResults, an empty bytes array, or bytes that do not decode)
\* starts a catch-up (refetchAndMerge).
PayloadFailureStartsCatchUp ==
  [][\A idx \in 0..MaxIndex, payload \in {"missing", "empty", "entry"} :
       (/\ OnData(idx, payload)
        /\ (payload # "entry" \/ ~Decodes(remoteLog[idx + 1])))
       => BagCardinality(catchUp') = BagCardinality(catchUp) + 1]_vars

\* every remote entry that decodes and passes the filter has its id in list
HoldsEveryAcceptedEntry(list) ==
  \A i \in 1..Len(remoteLog) :
     (Decodes(remoteLog[i]) /\ Accepts(remoteLog[i])) => remoteLog[i].earthquakeId \in Ids(list)

\* C18: self-healing.  When a refetchAndMerge that counted the whole remote
\* log completes successfully (nothing to fetch, or the range fetch
\* returned), currentEarthquakes holds every remote entry that decodes and
\* passes the filter.
SelfHealing ==
  [][(\/ /\ CatchUpCount("ok")
         /\ catchUp' # catchUp
         /\ Len(remoteLog) <= currentIndex
      \/ \E run \in RangeRuns :
            CatchUpRangeReturned(run) /\ run.total = Len(remoteLog))
     => HoldsEveryAcceptedEntry(currentEarthquakes')]_vars

\* C19: a rejected subscribe and a channel error (onError) change neither
\* currentEarthquakes nor currentIndex and invoke neither UI callback,
\* however many failures precede them.
FailureLeavesStore ==
  [][(SubscribeReject \/ OnError)
     => UNCHANGED <<currentEarthquakes, currentIndex, lastUpdate, notified>>]_vars

\* C19 witness: consecutive failures with no subscription ever acknowledged
\* (a channel error and a rejected subscribe each left a timer pending) and
\* the bulk-loaded records still in the store.
FailedTwiceStoreKept ==
  /\ subscription = <<>>
  /\ pendingSub = <<>>
  /\ reconnectTimeout = "armed"
  /\ staleTimers > 0
  /\ currentEarthquakes # <<>>
  /\ ~tornDown

\* C20: reconnect liveness.  After every channel error (onError) and every
\* rejected subscribe, unless the effect cleanup intervenes, a new subscribe
\* call is eventually made.
ReconnectLiveness == (retryOwed /\ ~tornDown) ~> (~retryOwed \/ tornDown)

\* C21: a subscribe call in flight does not block the manager for ever:
\* unless the effect cleanup intervenes, it eventually ends (it settles or
\* is treated as failed), so that a new subscribe call can be issued.
SubscribeInFlightEnds == (pendingSub # <<>> /\ ~tornDown) ~> (pendingSub = <<>> \/ tornDown)

\* C22: a notification whose bundled record has an earthquakeId already in
\* currentEarthquakes leaves currentEarthquakes unchanged and invokes
\* neither onEarthquakesUpdate nor onNewEarthquake.
DuplicateNotificationAddsNothing ==
  [][\A idx \in 0..MaxIndex :
       (/\ OnData(idx, "entry")
        /\ \E k \in 1..Len(currentEarthquakes) :
              currentEarthquakes[k].earthquakeId = remoteLog[idx + 1].earthquakeId)
       => UNCHANGED <<currentEarthquakes, lastUpdate, notified>>]_vars

\* C22 witness: the live subscription has delivered the same entry twice:
\* the first notification added it, the second found its id in the store
\* (only notifications move the cursor beyond the length of the log).
DuplicateNotificationHandled ==
  \E idx \in 0..MaxIndex :
     /\ subscription = <<[index |-> idx, live |-> TRUE]>>
     /\ idx < Len(remoteLog)
     /\ notified = <<remoteLog[idx + 1]>>
     /\ currentIndex > Len(remoteLog)

\* C23: once the bulk load has completed, the list last passed to
\* onEarthquakesUpdate is currentEarthquakes (an empty store that was never
\* passed counts as equal).
LastUpdateIsStore ==
  isInitialized =>
    IF lastUpdate = <<>> THEN currentEarthquakes = <<>>
    ELSE lastUpdate[1] = currentEarthquakes

\* C24: every subscribe that resolves after the bulk-load initialisation,
\* the first one and every reconnect, starts a catch-up (refetchAndMerge).
ResolvedSubscribeStartsCatchUp ==
  [][(SubscribeResolve /\ isInitialized)
     => catchUp' = catchUp (+) SetToBag({CountingRun})]_vars

\* C24 witness: a reconnect has just been acknowledged: a failure left a
\* timer pending, a subscribe call was issued after it and resolved, and
\* its catch-up awaits the count.
ReconnectCatchUpStarted ==
  /\ PendingTimers > 0
  /\ ~retryOwed
  /\ isSubscribed
  /\ pendingSub = <<>>
  /\ BagIn(CountingRun, catchUp)
  /\ ~tornDown

\* q is an element of list
Holds(list, q) == \E k \in 1..Len(list) : list[k] = q

\* C25: in the bulk load and in the catch-up an entry that fails to decode
\* is skipped and every other entry of the batch is still decoded, filtered
\* and ingested; entries a (ts 100, v 5), b (ts 50, v 1), c (ts 10, v 3)
\* with filter v >= 2 give [a, c], with or without an undecodable entry
\* among them.
DecodeFailureSkipsOneEntry ==
  [][/\ \A failed \in SUBSET (0..(MaxLog - 1)) :
          BulkFetch(failed) =>
            \A i \in 0..(bulkTotal - 1) :
               (i \notin failed /\ Decodes(remoteLog[i + 1]) /\ Accepts(remoteLog[i + 1]))
                 => Holds(currentEarthquakes', remoteLog[i + 1])
     /\ \A run \in RangeRuns :
          CatchUpRangeReturned(run) =>
            \A i \in run.start..(run.total - 1) :
               (/\ Decodes(remoteLog[i + 1]) /\ Accepts(remoteLog[i + 1])
                /\ remoteLog[i + 1].earthquakeId \notin Ids(currentEarthquakes))
                 => Holds(currentEarthquakes', remoteLog[i + 1])
     /\ LET a == [earthquakeId |-> "a", timestamp |-> 100, magnitude |-> 50]
            b == [earthquakeId |-> "b", timestamp |-> 50, magnitude |-> 10]
            c == [earthquakeId |-> "c", timestamp |-> 10, magnitude |-> 30]
        IN  /\ SortByTimestampDesc(DecodeAndFilter(<<a, b, c>>)) = <<a, c>>
            /\ SortByTimestampDesc(DecodeAndFilter(<<c, Undecodable, b, a>>)) = <<a, c>>]_vars

\* C25 witness: the bulk load has ingested a record from a batch that holds
\* an entry that does not decode.
BulkLoadedPastUndecodable ==
  /\ initPc = "cursor"
  /\ currentEarthquakes # <<>>
  /\ \E i \in 1..bulkTotal : remoteLog[i] = Undecodable

\* C26: replacing the consumer callbacks changes neither the subscription
\* nor the store nor the cursor (nor any timer, catch-up or past delivery),
\* and every list handed to onEarthquakesUpdate afterwards goes to the
\* callbacks held by the refs at that moment.
CallbackReplacementIsolated ==
  [][/\ UpdateCallbackRefs =>
          UNCHANGED <<decodeVars, oracleVars, pageVars, remoteLog, storeVars, lastUpdate, notified, subVars, timerVars,
                      initVars, lastFetchAge, catchUp, tornDown>>
     /\ lastUpdate' # lastUpdate => lastUpdate'[2] = callbackRef]_vars

\* C26 witness: a list was delivered to callbacks supplied after the mount,
\* by the subscription set up at the mount.
DeliveredToReplacedCallbacks ==
  /\ lastUpdate # <<>>
  /\ lastUpdate[2] > 0
  /\ lastUpdate[1] = currentEarthquakes
  /\ subscription # <<>> /\ subscription[1].live

\* C27: every call of decodeEarthquake returns the record of the primary
\* strategy (encoder.decode) when that strategy succeeds, the record of the
\* secondary strategy (decodeAbiParameters) when only that one succeeds, and
\* throws exactly when both strategies fail.
DecodeTriesPrimaryThenSecondary ==
  \A k \in 1..Len(decodeResults) :
    LET data == encodedData[k]
        result == decodeResults[k]
    IN  /\ data.schema # Undecodable
           => result = [threw |-> FALSE, value |-> data.schema]
        /\ (data.schema = Undecodable /\ data.abi # Undecodable)
           => result = [threw |-> FALSE, value |-> data.abi]
        /\ result.threw <=> (data.schema = Undecodable /\ data.abi = Undecodable)

\* C27 witness: one call fell back to the secondary strategy, and another
\* returned the primary's record although the secondary decodes the same
\* bytes to a different record.
DecodedByBothStrategies ==
  /\ Len(decodeResults) = 2
  /\ encodedData[1].schema = Undecodable
  /\ ~decodeResults[1].threw
  /\ encodedData[2].schema # Undecodable
  /\ encodedData[2].abi # Undecodable
  /\ encodedData[2].abi # encodedData[2].schema

\* C28: no step of the hook, whatever the interleaving of notifications and
\* catch-up runs in flight, removes a record from currentEarthquakes: every
\* record is in the store after a step at least as often as before it.
StoreNeverLosesRecord ==
  [][\A q \in Catalog : Count(currentEarthquakes', q) >= Count(currentEarthquakes, q)]_vars

\* C28 witness: the bulk load found nothing, and the store holds both a
\* record added by a notification and a record merged by a catch-up.
NotificationAndCatchUpMerged ==
  /\ bulkTotal = 0
  /\ Len(notified) = 1
  /\ Len(currentEarthquakes) = 2
  /\ Holds(currentEarthquakes, notified[1])
  /\ \E k \in 1..2 : currentEarthquakes[k] # notified[1]
  /\ catchUp = EmptyBag

\* C29: once the store holds a record with some earthquakeId, no step
\* changes the records of that id: each version of it (the same id with any
\* timestamp and magnitude) is in the store after the step exactly as often
\* as before, so a delivered record with the same id and other field values
\* neither replaces the stored one nor is added next to it.
StoredRecordKeepsItsValues ==
  [][\A q \in Catalog :
       (\E k \in 1..Len(currentEarthquakes) :
           currentEarthquakes[k].earthquakeId = q.earthquakeId)
       => Count(currentEarthquakes', q) = Count(currentEarthquakes, q)]_vars

\* C29 witness: a notification stored one version of id "a", the other
\* version of "a" in the log was then delivered by a notification or fetched
\* by a catch-up, and the store still holds only the first.
OtherVersionDelivered ==
  /\ remoteLog = << [earthquakeId |-> "a", timestamp |-> 30, magnitude |-> 50],
                    [earthquakeId |-> "a", timestamp |-> 10, magnitude |-> 30] >>
  /\ bulkTotal = 0
  /\ notified = << remoteLog[1] >>
  /\ currentEarthquakes = << remoteLog[1] >>
  /\ currentIndex = 2
  /\ catchUp = EmptyBag

CatchUpFetchesOnlyAboveCursor ==
  [][/\ (CatchUpCount("ok") /\ Len(remoteLog) <= currentIndex)
          => /\ \A run \in BagToSet(catchUp') :
                  run.pc = "range" => CopiesIn(run, catchUp') <= CopiesIn(run, catchUp)
             /\ BagCardinality(catchUp') = BagCardinality(catchUp) - 1
             /\ UNCHANGED <<currentEarthquakes, currentIndex, lastUpdate, notified>>
     /\ \A run \in BagToSet(catchUp') :
          (run.pc = "range" /\ CopiesIn(run, catchUp') > CopiesIn(run, catchUp))
          => /\ run.start = currentIndex
             /\ run.total = Len(remoteLog)
             /\ run.total - 1 >= run.start]_vars

\* C31 witness: the subscription is established, the log is not empty and
\* holds no entry at or above the cursor, and the catch-up started by the
\* subscribe call has ended without a list being handed to the UI.
CatchUpEndedWithoutFetch ==
  /\ isSubscribed
  /\ catchUp = EmptyBag
  /\ Len(remoteLog) > 0
  /\ currentIndex >= Len(remoteLog)
  /\ lastUpdate = <<>>
  /\ notified = <<>>

\* C36: the cursor never exceeds the number of entries in the remote log.
CursorWithinLog == currentIndex <= Len(remoteLog)

\* C37: a notification handled while isSubscribed is false changes neither
\* the store nor the cursor and invokes no UI callback.
NotificationWhileUnsubscribedIgnored ==
  [][\A idx \in 0..MaxIndex, payload \in {"missing", "empty", "entry"} :
       (OnData(idx, payload) /\ ~isSubscribed)
       => UNCHANGED <<currentEarthquakes, currentIndex, lastUpdate, notified>>]_vars

\* C32: in the snapshot revision, a notification handled while subscribed
\* leaves every record of its snapshot that decodes and passes the filter
\* in the store (by id), and the assignment of the bulk-load result removes
\* no record that a notification added and reported through onNewEarthquake.
SnapshotMergeSurvivesBulkLoad ==
  [][/\ \A n \in 1..MaxLog :
          (SnapshotOnData(n, "snapshot") /\ isSubscribed)
          => \A k \in 1..n :
               (Decodes(remoteLog[k]) /\ Accepts(remoteLog[k]))
               => \E j \in 1..Len(currentEarthquakes') :
                     currentEarthquakes'[j].earthquakeId = remoteLog[k].earthquakeId
     /\ ((\E outcome \in {"ok", "throw"} : SnapshotBulkCount(outcome))
          \/ (\E failed \in SUBSET (0..(MaxLog - 1)) : SnapshotBulkFetch(failed)))
          => \A k \in 1..Len(notified) :
               Count(currentEarthquakes', notified[k]) >= Count(currentEarthquakes, notified[k])]_vars

\* the ids of the features whose transaction was confirmed with a receipt
\* of status success, one per transaction
Confirmed == SelectSeq(transactions, LAMBDA tx : tx.state = "confirmed")

ForceRefreshed == \E r \in 1..Len(syncRuns) : syncRuns[r].force /\ syncRuns[r].status # 401

\* C33: as long as no run was a force refresh, no two confirmed transactions
\* of runs that do not overlap carry the same USGS id.
NoIdPublishedTwice ==
  ~ForceRefreshed =>
    \A i, j \in 1..Len(Confirmed) :
      i # j => Confirmed[i].quake.earthquakeId # Confirmed[j].quake.earthquakeId

\* the transactions of run r, in the order of their setAndEmitEvents calls
TransactionsOf(r) == SelectSeq(transactions, LAMBDA tx : tx.run = r)

\* C34: the transactions of a run are those of its new earthquakes, one per
\* earthquake in the order selected, with timestamps that never decrease;
\* when a transaction is submitted, every earlier one of the run has been
\* confirmed or has failed.
PublishedOneAtATimeOldestFirst ==
  \A r \in 1..Len(syncRuns) :
    LET mine == TransactionsOf(r)
    IN  /\ Len(mine) = syncRuns[r].i
        /\ \A k \in 1..Len(mine) : mine[k].quake = syncRuns[r].newQuakes[k]
        /\ \A k \in 1..(Len(mine) - 1) :
             /\ mine[k].state # "sent"
             /\ mine[k].quake.timestamp <= mine[k + 1].quake.timestamp

\* C34 witness: a run has published two earthquakes with different
\* timestamps that the feed lists newest first, the first of them having
\* failed.
OlderPublishedBeforeNewer ==
  \E r \in 1..MaxRuns :
    /\ r <= Len(syncRuns)
    /\ syncRuns[r].pc = "done"
    /\ Len(syncRuns[r].newQuakes) = 2
    /\ syncRuns[r].newQuakes[1].timestamp < syncRuns[r].newQuakes[2].timestamp
    /\ usgsFeed[1] = syncRuns[r].newQuakes[2]
    /\ TransactionsOf(r)[1].state = "failed"
    /\ TransactionsOf(r)[2].state = "confirmed"

\* C35: a request without the Bearer secret is answered 401 at once, with or
\* without force=true: it leaves lastProcessedId and lastProcessedTime as
\* they are, submits no transaction, and its run never submits one later.
UnauthorizedRequestChangesNothing ==
  [][/\ \A force \in BOOLEAN :
          SyncRequest(FALSE, force)
          => /\ syncRuns'[Len(syncRuns')].status = 401
             /\ syncRuns'[Len(syncRuns')].pc = "done"
             /\ UNCHANGED <<lastProcessedId, lastProcessedTime, transactions, usgsFeed>>
     /\ \A r \in 1..Len(syncRuns) :
          syncRuns[r].status = 401
          => /\ syncRuns'[r] = syncRuns[r]
             /\ \A k \in 1..Len(transactions') : transactions'[k].run # r]_vars

\* C35 witness: a request with force=true was answered 401 after an earlier
\* run had published and recorded an earthquake, which is still recorded.
UnauthorizedForceRefused ==
  /\ Len(syncRuns) = 2
  /\ syncRuns[1].status = 200
  /\ syncRuns[1].newQuakes # <<>>
  /\ syncRuns[2].status = 401
  /\ syncRuns[2].force
  /\ lastProcessedId = syncRuns[1].newQuakes[Len(syncRuns[1].newQuakes)].earthquakeId

\* C39: as long as no run was a force refresh, an earthquake that a finished
\* run selected and that no transaction has confirmed can still be selected:
\* its time is not below lastProcessedTime (which runs that do not overlap
\* never lower, so an earthquake below it is selected by no later run).
UnpublishedStaysSelectable ==
  ~ForceRefreshed =>
    \A r \in 1..Len(syncRuns) :
      syncRuns[r].pc = "done" =>
        \A k \in 1..Len(syncRuns[r].newQuakes) :
          LET q == syncRuns[r].newQuakes[k]
          IN  (\A j \in 1..Len(Confirmed) : Confirmed[j].quake.earthquakeId # q.earthquakeId)
              => ~(q.timestamp < lastProcessedTime)

\* C40: with cron invocations that may overlap and no force refresh, no two
\* confirmed transactions carry the same USGS id, and no step lowers
\* lastProcessedTime.
OverlappingRunsPublishOnce ==
  [][~ForceRefreshed' =>
       /\ \A i, j \in 1..Len(Confirmed') :
            i # j => Confirmed'[i].quake.earthquakeId # Confirmed'[j].quake.earthquakeId
       /\ lastProcessedTime' >= lastProcessedTime]_vars

\* C38: every record of the list onEarthquakesUpdate last handed to the page
\* (which holds the records of every list handed before) is in the page's
\* earthquakes state.
PageKeepsGivenRecords ==
  lastUpdate # <<>> =>
    \A k \in 1..Len(lastUpdate[1]) : Count(pageEarthquakes, lastUpdate[1][k]) >= 1

====
